---- MODULE Spec2Model ----
(***************************************************************************)
(* Model of configgery/client.py: the Client that keeps the directory      *)
(* <root>/configurations in step with the device group metadata published  *)
(* by the server, and the metadata cache <root>/configurations.json.       *)
(*                                                                         *)
(* A path is the tuple of its components, <<2, 1>> for "b/a".  Components  *)
(* are numbers standing for alphanumeric names in alphabetical order, so   *)
(* that comparing two tuples component by component is Python's comparison *)
(* of the two path strings ("/" sorts below every letter and digit).       *)
(* A file content is 0, the empty byte string, or 1, any other content.     *)
(***************************************************************************)
EXTENDS Integers, Sequences, FiniteSets, TLC

\* ------------------------------------------------------------- bounds ----
\* check_latest may run while now < MaxTime (the clock ticks once per fetch)
MaxTime == 2
\* the directory holds at most MaxNodes files and directories at start
MaxNodes == 4
\* the server declares at most MaxEntries configurations at a time
MaxEntries == 2
\* at most this many files of the initial directory deny every access
MaxNoAccess == 1

\* ---------------------------------------------------------- constants ----
CONFIG_FILE_VERSION == 1
HTTP_OK == 200
\* file_md5's result for a file it cannot read: the empty string
EmptyDigest == 0

Content == {0, 1}
\* r.status: 200, or anything else (500 stands for every other status)
Statuses == {HTTP_OK, 500}

\* Optional values: None, or a one-element tuple.
None == <<>>
Some(x) == <<x>>
Get(o) == o[1]

\* ------------------------------------------------------------- paths -----
\* <root>/configurations itself
Root == <<>>
\* every path the model's directory can hold below it
AllPaths == {<<1>>, <<2>>, <<2, 1>>, <<2, 2>>, <<2, 1, 1>>}
\* the paths the server declares configurations at
DeclPaths == {<<1>>, <<2, 2>>, <<2, 1, 1>>}

Parent(p) == SubSeq(p, 1, Len(p) - 1)

IsPrefix(p, q) == Len(p) <= Len(q) /\ SubSeq(q, 1, Len(p)) = p

IsProperPrefix(p, q) == Len(p) < Len(q) /\ IsPrefix(p, q)

\* Python's str < str on the two path strings
RECURSIVE PathLess(_, _)
PathLess(p, q) ==
    IF p = <<>> THEN q # <<>>
    ELSE IF q = <<>> THEN FALSE
    ELSE IF Head(p) # Head(q) THEN Head(p) < Head(q)
    ELSE PathLess(Tail(p), Tail(q))

\* ------------------------------------------------------------ digests ----
\* hexlify(md5(content).digest()).decode(): a 32-character digest, one per
\* content (no collisions among the contents of the model), never ''
Md5(c) == c + 1

Digests == {Md5(c) : c \in Content}

\* -------------------------------------------------------- data model -----
NoAlias == "None"

\* the alias the server gives the configuration at path p, if any
ServerAlias(p) == IF p = <<1>> THEN "abc" ELSE NoAlias

ConfigurationMetadata(p, d) ==
    [configuration_id |-> p, path |-> p, md5 |-> d, version |-> 1,
     alias |-> ServerAlias(p)]

\* the "configurations" lists the server may answer with: any set of
\* configurations at distinct paths
ServerConfigurations ==
    {cs \in SUBSET {ConfigurationMetadata(p, d) : p \in DeclPaths, d \in Digests} :
        /\ \A a, b \in cs : a.path = b.path => a = b
        /\ Cardinality(cs) <= MaxEntries}

ServerData ==
    [device_group_id : {"g1"}, device_group_version : {1},
     configurations : ServerConfigurations]

\* the answers to GET v1/current_configurations: 200 with a document, or
\* another status, whose body is only logged
FetchResponses ==
    {[status |-> HTTP_OK, data |-> d] : d \in ServerData} \cup
    {[status |-> 500, data |-> CHOOSE d \in ServerData : d.configurations = {}]}

\* sorted(configs, key=lambda x: x.path)
RECURSIVE SortedByPath(_)
SortedByPath(cs) ==
    IF cs = {} THEN <<>>
    ELSE LET first == CHOOSE c \in cs : \A o \in cs : ~PathLess(o.path, c.path)
         IN  <<first>> \o SortedByPath(cs \ {first})

SeqToSet(s) == {s[i] : i \in 1..Len(s)}

DeviceGroupMetadata_from_server(data, t) ==
    [device_group_id |-> data.device_group_id,
     device_group_version |-> data.device_group_version,
     configurations_metadata |-> data.configurations,
     last_checked |-> t]

\* ------------------------------------------------ persisted document -----
DocKeys == {"version", "device_group_id", "device_group_version",
            "configurations_metadata", "last_checked"}

\* str(uuid) and UUID(text); datetime.isoformat() and datetime.fromisoformat():
\* the text of a value is not the value
Str(u) == <<"str", u>>
UUID(text) == text[2]
isoformat(t) == <<"iso", t>>
fromisoformat(text) == text[2]

\* one element of the "configurations_metadata" list, and its
\* ConfigurationMetadata (alias: null in the document is None)
ConfigToDict(c) ==
    [configuration_id |-> Str(c.configuration_id), path |-> c.path, md5 |-> c.md5,
     version |-> c.version, alias |-> c.alias]

\* from_dict reading no alias
ConfigFromDict_NoAlias(e) ==
    [configuration_id |-> UUID(e.configuration_id), path |-> e.path, md5 |-> e.md5,
     version |-> e.version, alias |-> NoAlias]

ConfigFromDict(e) ==
    [configuration_id |-> UUID(e.configuration_id), path |-> e.path, md5 |-> e.md5,
     version |-> e.version, alias |-> e.alias]

\* the values a document carries when a field's content plays no part
NoBody == [device_group_id |-> Str("g1"), device_group_version |-> 1,
           configurations_metadata |-> <<>>, last_checked |-> isoformat(0)]

AbsentFile == [kind |-> "absent", keys |-> {}, version |-> 0, body |-> NoBody]
GarbageFile == [kind |-> "garbage", keys |-> {}, version |-> 0, body |-> NoBody]

\* to_dict writing no configuration
DeviceGroupMetadata_to_dict_NoConfigurations(md) ==
    [kind |-> "json", keys |-> DocKeys, version |-> CONFIG_FILE_VERSION,
     body |-> [device_group_id |-> Str(md.device_group_id),
               device_group_version |-> md.device_group_version,
               configurations_metadata |-> <<>>,
               last_checked |-> isoformat(md.last_checked)]]

DeviceGroupMetadata_to_dict(md) ==
    [kind |-> "json", keys |-> DocKeys, version |-> CONFIG_FILE_VERSION,
     body |-> [device_group_id |-> Str(md.device_group_id),
               device_group_version |-> md.device_group_version,
               configurations_metadata |->
                   LET sorted == SortedByPath(md.configurations_metadata)
                   IN  [i \in 1..Len(sorted) |-> ConfigToDict(sorted[i])],
               last_checked |-> isoformat(md.last_checked)]]

DeviceGroupMetadata_from_dict(doc) ==
    [device_group_id |-> UUID(doc.body.device_group_id),
     device_group_version |-> doc.body.device_group_version,
     configurations_metadata |->
         {ConfigFromDict(e) : e \in SeqToSet(doc.body.configurations_metadata)},
     last_checked |-> fromisoformat(doc.body.last_checked)]

\* the keys from_dict subscripts
FromDictKeys == {"device_group_id", "device_group_version",
                 "configurations_metadata", "last_checked"}

\* _load_metadata_file on document doc: the exception it lets escape
\* ("" when it returns normally)
LoadRaises(doc) ==
    IF doc.kind # "json" THEN ""
    ELSE IF "version" \notin doc.keys THEN "KeyError"
    ELSE IF doc.version # CONFIG_FILE_VERSION THEN ""
    ELSE IF "device_group_id" \in doc.keys /\ ~(FromDictKeys \subseteq doc.keys)
         THEN "KeyError"
    ELSE ""

\* _load_metadata_file on document doc: the value of _device_group_metadata
\* when it returns normally
LoadResult(doc) ==
    IF doc.kind # "json" THEN None
    ELSE IF doc.version # CONFIG_FILE_VERSION THEN None
    ELSE IF "device_group_id" \in doc.keys
         THEN Some(DeviceGroupMetadata_from_dict(doc))
    ELSE None

\* ------------------------------------------------------- file system -----
\* file_md5 hashing no bytes for a file it cannot read
file_md5_OfEmpty(F, locked, p) ==
    IF p \in DOMAIN F /\ p \notin locked THEN Md5(F[p]) ELSE Md5(0)

\* file_md5(path): the digest of the file's content, '' when the file is
\* missing (FileNotFoundError) or unreadable (PermissionError)
file_md5(F, locked, p) ==
    IF p \in DOMAIN F /\ p \notin locked THEN Md5(F[p]) ELSE EmptyDigest

\* the files and directories directly inside directory d
Children(d, paths) == {p \in paths : Len(p) = Len(d) + 1 /\ IsPrefix(d, p)}

\* remove_subdirs_if_empty without the recursion
remove_subdirs_if_empty_Shallow(root, F, D) ==
    D \ {d \in Children(root, D) : Children(d, F \cup D) = {}}

\* remove_subdirs_if_empty(root): the directories left when, bottom-up, every
\* entry of root is tried with rmdir() and OSError (not empty, not a
\* directory) is swallowed.  F: the file paths, D: the directories.
RECURSIVE remove_subdirs_if_empty(_, _, _), RemoveEach(_, _, _)
remove_subdirs_if_empty(root, F, D) == RemoveEach(Children(root, F \cup D), F, D)

RemoveEach(ds, F, D) ==
    IF ds = {} THEN D
    ELSE LET d == CHOOSE x \in ds : TRUE
             D1 == IF d \in D THEN remove_subdirs_if_empty(d, F, D) ELSE D
             D2 == IF d \in D1 /\ Children(d, F \cup D1) = {} THEN D1 \ {d} ELSE D1
         IN  RemoveEach(ds \ {d}, F, D2)

\* F without the files at the paths in S
Unlink(F, S) == [p \in DOMAIN F \ S |-> F[p]]

\* F with content c written at path q
WriteFile(F, q, c) == [p \in DOMAIN F \cup {q} |-> IF p = q THEN c ELSE F[p]]

\* -------------------------------------------------------------- state -----
VARIABLES
    state,      \* Client._state
    metadata,   \* Client._device_group_metadata: None or Some(snapshot)
    metaFile,   \* the document in <root>/configurations.json
    files,      \* the regular files under <root>/configurations: path -> content
    dirs,       \* the directories: <root>/configurations (Root) and those under it
    noaccess,   \* the files that can be neither read, written nor unlinked
    now,        \* the clock read by datetime.now()
    pc,         \* "off": no client constructed; "idle": between calls;
                \* "prune", "download": inside download_configurations
    todo,       \* the configurations the generator has yet to examine
    all_ok,     \* download_configurations' local all_ok
    op,         \* the public operation running, or the last one that ran
    ret,        \* its result: "running", "ok" (no value), "true", "false", "raised"
    exc,        \* the exception it raised, "" if none
    reqs,       \* the requests that operation has sent, with their responses
    deleted,    \* what the prune step of that operation removed: "file", "dir"
                \* (a directory), "subfile", "subdir" (one inside a directory)
    outdated0,  \* list(outdated_configurations()) when its download loop began
    lastSync,   \* "none", or how the last download_configurations returned True
                \* if snapshot and directory are unchanged since
    prior       \* lastSync when the running operation began

vars == <<state, metadata, metaFile, files, dirs, noaccess, now, pc, todo, all_ok,
          op, ret, exc, reqs, deleted, outdated0, lastSync, prior>>

disk == <<files, dirs, noaccess>>

ValidPaths(md) == {c.path : c \in md.configurations_metadata}

\* list(outdated_configurations())
outdated_configurations(md, F, locked) ==
    SelectSeq(SortedByPath(md.configurations_metadata),
              LAMBDA c : c.md5 # file_md5(F, locked, c.path))

\* is_outdated never finding an outdated configuration
is_outdated_Never(md, F, locked) == FALSE

is_outdated(md, F, locked) == outdated_configurations(md, F, locked) # <<>>

\* ------------------------------------------------------ initial state ----
\* the directory trees over AllPaths of at most MaxNodes nodes: every file and
\* directory lies in a directory, and at most MaxNoAccess files deny access
InitDisks ==
    {d \in [F : SUBSET AllPaths, D : SUBSET AllPaths, L : SUBSET AllPaths] :
        /\ d.F \cap d.D = {}
        /\ \A p \in d.F \cup d.D : Parent(p) \in d.D \cup {Root}
        /\ Cardinality(d.F \cup d.D) <= MaxNodes
        /\ d.L \subseteq d.F
        /\ Cardinality(d.L) <= MaxNoAccess}

\* a snapshot saved by an earlier run: a configuration at every declared path
CachedSnapshot ==
    [device_group_id |-> "g1", device_group_version |-> 1,
     configurations_metadata |-> {ConfigurationMetadata(p, Md5(1)) : p \in DeclPaths},
     last_checked |-> 0]

\* the documents configurations.json may hold at start: none, one that is no
\* JSON, and the saved snapshot whole, with one field missing, or with
\* another schema version
InitDocs ==
    {AbsentFile, GarbageFile} \cup
    {[DeviceGroupMetadata_to_dict(CachedSnapshot) EXCEPT !.keys = ks, !.version = v] :
        ks \in {DocKeys} \cup {DocKeys \ {k} : k \in DocKeys},
        v \in {CONFIG_FILE_VERSION, CONFIG_FILE_VERSION + 1}}

\* the document and the directory at start: any document beside an empty
\* directory, or any directory (of non-empty files) beside no document or the
\* saved snapshot
InitStore ==
    {<<doc, d>> \in InitDocs \X InitDisks :
        \/ d.F \cup d.D = {}
        \/ doc \in {AbsentFile, DeviceGroupMetadata_to_dict(CachedSnapshot)}}

Init ==
    /\ pc = "off"
    /\ state = "Outdated"
    /\ metadata = None
    /\ \E s \in InitStore :
          /\ metaFile = s[1]
          /\ dirs = s[2].D \cup {Root}
          /\ noaccess = s[2].L
          /\ files \in [s[2].F -> Content \ {0}]
    /\ now = 0
    /\ todo = <<>>
    /\ all_ok = TRUE
    /\ op = "none"
    /\ ret = "ok"
    /\ exc = ""
    /\ reqs = <<>>
    /\ deleted = {}
    /\ outdated0 = <<>>
    /\ lastSync = "none"
    /\ prior = "none"

\* ------------------------------------------------------------ actions ----
\* a public operation begins: the record of the previous one is reset
Begin(name) ==
    /\ op' = name
    /\ prior' = lastSync
    /\ deleted' = {}
    /\ outdated0' = <<>>

Request(url, config, body, status, data) ==
    [url |-> url, config |-> config, body |-> body, status |-> status, data |-> data]

\* __init__ promoting the state when the cache was loaded
StateAfterInit_Loaded(loaded) ==
    IF loaded # None THEN "MetadataDownloaded" ELSE "Outdated"

\* Client._state when __init__ returns, loaded being _device_group_metadata
StateAfterInit(loaded) == "Outdated"

\* Client.__init__: a client is constructed over the directory (at start, or
\* when the process restarts)
ClientInit ==
    /\ pc \in {"off", "idle"}
    /\ Begin("__init__")
    /\ LET exists == metaFile.kind # "absent"
           raised == IF exists THEN LoadRaises(metaFile) ELSE ""
           loaded == IF exists THEN LoadResult(metaFile) ELSE None
       IN  IF raised = ""
           THEN /\ metadata' = loaded
                /\ state' = StateAfterInit(loaded)
                /\ pc' = "idle"
                /\ ret' = "ok"
                /\ exc' = ""
           ELSE /\ metadata' = None
                /\ state' = "Outdated"
                /\ pc' = "off"
                /\ ret' = "raised"
                /\ exc' = raised
    /\ reqs' = <<>>
    /\ todo' = <<>>
    /\ all_ok' = TRUE
    /\ lastSync' = "none"
    /\ dirs' = dirs \cup {Root}
    /\ UNCHANGED <<metaFile, files, noaccess, now>>

\* _save_metadata_file writing nothing
save_metadata_file_Skip(md, old) == old

\* _save_metadata_file: the document on disk afterwards
save_metadata_file(md, old) ==
    IF md # None THEN DeviceGroupMetadata_to_dict(Get(md)) ELSE old

\* check_latest keeping the snapshot when the fetch fails
FetchFailed_KeepSnapshot(st, md) == <<"Invalid_FailedToLoadMetadata", md>>

\* check_latest leaving the state alone when the fetch fails
FetchFailed_KeepState(st, md) == <<st, None>>

\* check_latest setting the other failure state when the fetch fails
FetchFailed_AsDownloadFailure(st, md) == <<"Invalid_FailedToDownload", None>>

\* check_latest when the response is not 200: <<_state, _device_group_metadata>>
FetchFailed(st, md) == <<"Invalid_FailedToLoadMetadata", None>>

\* the body of check_latest, the server answering status with data
Fetch(status, data) ==
    /\ now' = now + 1
    /\ reqs' = <<Request("v1/current_configurations", None, None, status, data)>>
    /\ IF status = HTTP_OK
       THEN /\ metadata' = Some(DeviceGroupMetadata_from_server(data, now'))
            /\ metaFile' = save_metadata_file(metadata', metaFile)
            /\ state' = "MetadataDownloaded"
       ELSE /\ state' = FetchFailed(state, metadata)[1]
            /\ metadata' = FetchFailed(state, metadata)[2]
            /\ metaFile' = metaFile

\* Client.check_latest
check_latest(status, data) ==
    /\ pc = "idle"
    /\ now < MaxTime
    /\ Begin("check_latest")
    /\ Fetch(status, data)
    /\ ret' = IF status = HTTP_OK THEN "true" ELSE "false"
    /\ exc' = ""
    /\ lastSync' = "none"
    /\ UNCHANGED <<files, dirs, noaccess, pc, todo, all_ok>>

\* download_configurations going on whatever check_latest returned
download_fetch_GoesOn(status, data) ==
    /\ pc = "idle"
    /\ metadata = None
    /\ now < MaxTime
    /\ Begin("download_configurations")
    /\ Fetch(status, data)
    /\ pc' = "prune"
    /\ ret' = "running"
    /\ exc' = ""
    /\ all_ok' = TRUE
    /\ lastSync' = "none"
    /\ UNCHANGED <<files, dirs, noaccess, todo>>

\* Client.download_configurations with no snapshot in memory: lines 219-220
download_fetch(status, data) ==
    /\ pc = "idle"
    /\ metadata = None
    /\ now < MaxTime
    /\ Begin("download_configurations")
    /\ Fetch(status, data)
    /\ IF status = HTTP_OK
       THEN pc' = "prune" /\ ret' = "running"
       ELSE pc' = "idle" /\ ret' = "false"
    /\ exc' = ""
    /\ all_ok' = TRUE
    /\ lastSync' = "none"
    /\ UNCHANGED <<files, dirs, noaccess, todo>>

\* Client.download_configurations with a snapshot in memory: line 219
download_cached ==
    /\ pc = "idle"
    /\ metadata # None
    /\ Begin("download_configurations")
    /\ pc' = "prune"
    /\ ret' = "running"
    /\ exc' = ""
    /\ reqs' = <<>>
    /\ all_ok' = TRUE
    /\ lastSync' = "none"
    /\ UNCHANGED <<state, metadata, metaFile, files, dirs, noaccess, now, todo>>

\* the prune loop over glob('*') alone
PruneVictims_TopLevel(md, F) == {f \in DOMAIN F : Len(f) = 1 /\ f \notin ValidPaths(md)}

\* the prune loop with its test inverted
PruneVictims_Inverted(md, F) == {f \in DOMAIN F : f \in ValidPaths(md)}

\* the files the prune loop unlinks: every regular file matched by
\* glob('**/*') or glob('*') whose relative path is not a valid path
PruneVictims(md, F) == {f \in DOMAIN F : f \notin ValidPaths(md)}

\* Client._remove_old_configurations, called at line 222.  unlink() of a file
\* that denies access raises PermissionError, which only FileNotFoundError
\* is caught for: the call ends there, the files met earlier in the
\* (unspecified) directory order already deleted.
remove_old_configurations ==
    /\ pc = "prune"
    /\ IF metadata = None
       THEN /\ pc' = "download"
            /\ UNCHANGED <<files, dirs, deleted, ret, exc, todo, outdated0>>
       ELSE LET md == Get(metadata)
                junk == PruneVictims(md, files)
                blocked == junk \cap noaccess
            IN  IF blocked = {}
                THEN /\ files' = Unlink(files, junk)
                     /\ dirs' = remove_subdirs_if_empty(Root, DOMAIN files', dirs)
                     /\ deleted' = {"file" : f \in junk} \cup {"dir" : d \in dirs \ dirs'}
                                    \cup {"subdir" : d \in {e \in dirs \ dirs' : Len(e) > 1}}
                                    \cup {"subfile" : f \in {e \in junk : Len(e) > 1}}
                     /\ pc' = "download"
                     /\ todo' = SortedByPath(md.configurations_metadata)
                     /\ outdated0' = outdated_configurations(md, files', noaccess)
                     /\ UNCHANGED <<ret, exc>>
                ELSE /\ \E S \in SUBSET (junk \ blocked) :
                            /\ files' = Unlink(files, S)
                            /\ deleted' = {"file" : f \in S}
                     /\ pc' = "idle"
                     /\ ret' = "raised"
                     /\ exc' = "PermissionError"
                     /\ UNCHANGED <<dirs, todo, outdated0>>
    /\ UNCHANGED <<state, metadata, metaFile, noaccess, now, all_ok, op, reqs,
                   lastSync, prior>>

\* the generator of outdated_configurations passes a configuration whose
\* file has the recorded digest
download_skip ==
    /\ pc = "download"
    /\ todo # <<>>
    /\ Head(todo).md5 = file_md5(files, noaccess, Head(todo).path)
    /\ todo' = Tail(todo)
    /\ UNCHANGED <<state, metadata, metaFile, files, dirs, noaccess, now, pc, all_ok,
                   op, ret, exc, reqs, deleted, outdated0, lastSync, prior>>

\* path.parent.mkdir(exist_ok=True): the exception it raises, "" if none
MkdirRaises(parent, F, D) ==
    IF parent \in D THEN ""
    ELSE IF parent \in F THEN "FileExistsError"
    ELSE IF Parent(parent) \in D THEN ""
    ELSE IF Parent(parent) \in F THEN "NotADirectoryError"
    ELSE "FileNotFoundError"

\* path.open('wb'): the exception it raises, "" if none
OpenRaises(path, D, locked) ==
    IF path \in D THEN "IsADirectoryError"
    ELSE IF path \in locked THEN "PermissionError"
    ELSE ""

\* the loop going on after a failed download
AfterFailure_Continue(rest) == rest

\* the configurations left to the loop after a download failed: break
AfterFailure(rest) == <<>>

\* the response never written
WriteResponse_Nothing(F, path, data) == WriteFile(F, path, 0)

\* fp.write(r.data) on the file just opened with 'wb'
WriteResponse(F, path, data) == WriteFile(F, path, data)

\* one turn of the loop at lines 225-240 for an outdated configuration, the
\* server answering status with data
download_one(status, data) ==
    /\ pc = "download"
    /\ todo # <<>>
    /\ LET config == Head(todo)
           path == config.path
           mkdirErr == MkdirRaises(Parent(path), DOMAIN files, dirs)
           dirs1 == IF mkdirErr = "" THEN dirs \cup {Parent(path)} ELSE dirs
           openErr == OpenRaises(path, dirs1, noaccess)
           r == Request("v1/configuration", Some(config), None, status, data)
       IN  /\ config.md5 # file_md5(files, noaccess, path)
           /\ IF mkdirErr # "" \/ openErr # ""
              THEN /\ dirs' = dirs1
                   /\ pc' = "idle"
                   /\ ret' = "raised"
                   /\ exc' = IF mkdirErr # "" THEN mkdirErr ELSE openErr
                   /\ todo' = <<>>
                   /\ UNCHANGED <<files, state, all_ok, reqs>>
              ELSE /\ dirs' = dirs1
                   /\ reqs' = Append(reqs, r)
                   /\ IF status = HTTP_OK
                      THEN /\ files' = WriteResponse(files, path, data)
                           /\ todo' = Tail(todo)
                           /\ UNCHANGED <<state, all_ok>>
                      ELSE /\ files' = WriteFile(files, path, 0)
                           /\ state' = "Invalid_FailedToDownload"
                           /\ all_ok' = FALSE
                           /\ todo' = AfterFailure(Tail(todo))
                   /\ UNCHANGED <<pc, ret, exc>>
    /\ UNCHANGED <<metadata, metaFile, noaccess, now, op, deleted, outdated0,
                   lastSync, prior>>

\* download_configurations ending Valid whatever all_ok
StateAtReturn_Always(ok, st) == "Valid"

\* Client._state when download_configurations returns: lines 242-247
StateAtReturn(ok, st) == IF ok THEN "Valid" ELSE st

\* every content downloaded by the running call has its recorded digest
AllMatched ==
    \A i \in 1..Len(reqs) :
        reqs[i].url = "v1/configuration" => Md5(reqs[i].data) = Get(reqs[i].config).md5

\* the loop is over: lines 242-247
download_return ==
    /\ pc = "download"
    /\ todo = <<>>
    /\ state' = StateAtReturn(all_ok, state)
    /\ ret' = IF all_ok THEN "true" ELSE "false"
    /\ pc' = "idle"
    /\ lastSync' = IF ~all_ok THEN "none"
                   ELSE IF AllMatched THEN "matched" ELSE "unmatched"
    /\ UNCHANGED <<metadata, metaFile, files, dirs, noaccess, now, todo, all_ok,
                   op, exc, reqs, deleted, outdated0, prior>>

\* Client.is_outdated; without a snapshot line 193 raises AttributeError
is_outdated_query ==
    /\ pc = "idle"
    /\ Begin("is_outdated")
    /\ IF metadata = None
       THEN ret' = "raised" /\ exc' = "AttributeError"
       ELSE /\ ret' = IF is_outdated(Get(metadata), files, noaccess) THEN "true" ELSE "false"
            /\ exc' = ""
    /\ reqs' = <<>>
    /\ UNCHANGED <<state, metadata, metaFile, files, dirs, noaccess, now, pc, todo,
                   all_ok, lastSync>>

DeviceState == {"ConfigurationsApplied", "Upvote", "Downvote"}

\* update_state without the test at line 250
update_state_Unguarded(device_state, status) ==
    /\ pc = "idle"
    /\ Begin("update_state")
    /\ reqs' = <<Request("v1/update_state", None, Some(device_state), status, 0)>>
    /\ ret' = IF status = HTTP_OK THEN "true" ELSE "false"
    /\ exc' = ""
    /\ UNCHANGED <<state, metadata, metaFile, files, dirs, noaccess, now, pc, todo,
                   all_ok, lastSync>>

\* Client.update_state
update_state(device_state, status) ==
    /\ pc = "idle"
    /\ Begin("update_state")
    /\ IF metadata = None
       THEN reqs' = <<>> /\ ret' = "false"
       ELSE /\ reqs' = <<Request("v1/update_state", None,
                                 Some(<<Get(metadata).device_group_id,
                                        Get(metadata).device_group_version,
                                        device_state>>), status, 0)>>
            /\ ret' = IF status = HTTP_OK THEN "true" ELSE "false"
    /\ exc' = ""
    /\ UNCHANGED <<state, metadata, metaFile, files, dirs, noaccess, now, pc, todo,
                   all_ok, lastSync>>

\* -------------------------------------------- configuration lookup -----
\* The lookup by path or alias is not part of client.py; it is modelled from
\* its contract.  A key is a text: the model gives the path it spells (Root
\* when it spells none a configuration can have) and the alias it spells
\* ("" when none).
Keys ==
    {[path |-> <<1>>, alias |-> ""], [path |-> <<2, 2>>, alias |-> ""],
     [path |-> Root, alias |-> "abc"], [path |-> Root, alias |-> "zzz"]}

\* the configuration a key names: an exact path match first, then an alias
Lookup(md, key) ==
    LET byPath == {c \in md.configurations_metadata : c.path = key.path}
        byAlias == {c \in md.configurations_metadata : c.alias = key.alias}
    IN  IF byPath # {} THEN Some(CHOOSE c \in byPath : TRUE)
        ELSE IF byAlias # {} THEN Some(CHOOSE c \in byAlias : TRUE)
        ELSE None

\* get(key): a precondition error without a snapshot or when a download is
\* needed, a not-found error for a key that names no configuration, else the
\* bytes of the file of the configuration named
get(key) ==
    /\ pc = "idle"
    /\ Begin("get")
    /\ IF metadata = None \/ is_outdated(Get(metadata), files, noaccess)
       THEN ret' = "raised" /\ exc' = "PreconditionError"
       ELSE IF Lookup(Get(metadata), key) = None
            THEN ret' = "raised" /\ exc' = "NotFoundError"
            ELSE ret' = "bytes" /\ exc' = ""
    /\ reqs' = <<>>
    /\ UNCHANGED <<state, metadata, metaFile, files, dirs, noaccess, now, pc, todo,
                   all_ok, lastSync>>

Next ==
    \/ ClientInit
    \/ \E r \in FetchResponses : check_latest(r.status, r.data)
    \/ \E r \in FetchResponses : download_fetch(r.status, r.data)
    \/ download_cached
    \/ remove_old_configurations
    \/ download_skip
    \/ \E status \in Statuses, data \in Content : download_one(status, data)
    \/ download_return
    \/ is_outdated_query
    \/ \E device_state \in DeviceState, status \in Statuses :
          update_state(device_state, status)
    \/ \E key \in Keys : get(key)

Spec == Init /\ [][Next]_vars

\* ------------------------------------------------ interrupted save -------
\* what configurations.json holds when the process stops inside
\* write_text(): open(..., 'w') has emptied the file and none or only a
\* leading part of the text is written; no proper prefix of the text of
\* json.dumps(dict) is a JSON document
TruncatedFile == GarbageFile

\* check_latest, answered 200 with data, in a process that is killed inside
\* _save_metadata_file's write_text (line 166): the client is gone
check_latest_interrupted(data) ==
    /\ pc = "idle"
    /\ now < MaxTime
    /\ Begin("check_latest")
    /\ now' = now + 1
    /\ reqs' = <<Request("v1/current_configurations", None, None, HTTP_OK, data)>>
    /\ metaFile' = TruncatedFile
    /\ pc' = "off"
    /\ state' = "Outdated"
    /\ metadata' = None
    /\ ret' = "killed"
    /\ exc' = ""
    /\ todo' = <<>>
    /\ all_ok' = TRUE
    /\ lastSync' = "none"
    /\ UNCHANGED <<files, dirs, noaccess>>

NextInterrupted ==
    \/ Next
    \/ \E data \in ServerData : check_latest_interrupted(data)

\* the client in a process that may be killed while it saves the snapshot
SpecInterrupted == Init /\ [][NextInterrupted]_vars

\* ------------------------------------------------------------- claims ----
InSync == op = "download_configurations"

\* the download requests of the running (or last) operation, in order
ConfigRequests == SelectSeq(reqs, LAMBDA r : r.url = "v1/configuration")

\* the configurations those requests asked for
Requested == [i \in 1..Len(ConfigRequests) |-> Get(ConfigRequests[i].config)]

Failed(r) == r.status # HTTP_OK

\* C1: in download_configurations a download request that fails is the last
\* request of the call: no configuration after it is requested, the loop has
\* nothing left, the state is Invalid_FailedToDownload and the call, once it
\* has returned, has returned False.
C1_FailFast ==
    InSync =>
        \A i \in 1..Len(reqs) :
            (reqs[i].url = "v1/configuration" /\ Failed(reqs[i])) =>
                /\ i = Len(reqs)
                /\ todo = <<>>
                /\ state = "Invalid_FailedToDownload"
                /\ ret \in {"running", "false"}
                /\ (pc = "idle" => ret = "false")

\* two configurations were outdated, the first download failed, and the call
\* returned without asking for the second
C1_Witness ==
    /\ InSync
    /\ pc = "idle"
    /\ ret = "false"
    /\ Len(outdated0) >= 2
    /\ Len(ConfigRequests) = 1
    /\ Failed(ConfigRequests[1])
    /\ Requested[1] = outdated0[1]

\* C2: when the metadata request of check_latest (called directly or from
\* download_configurations) is answered with a status other than 200, the
\* operation returns False with no snapshot in memory and state
\* Invalid_FailedToLoadMetadata.
C2_FetchFailureClears ==
    \A i \in 1..Len(reqs) :
        (reqs[i].url = "v1/current_configurations" /\ Failed(reqs[i])) =>
            /\ pc = "idle"
            /\ ret = "false"
            /\ metadata = None
            /\ state = "Invalid_FailedToLoadMetadata"

\* check_latest failed on a client that was Valid with a snapshot
C2_Witness ==
    /\ op = "check_latest"
    /\ ret = "false"
    /\ prior \in {"matched", "unmatched"}
    /\ metaFile.kind = "json"

\* a download_configurations call has returned True after requesting exactly
\* the configurations that were outdated, every request answered 200
SyncSucceeded ==
    /\ InSync
    /\ pc = "idle"
    /\ ret = "true"
    /\ Requested = outdated0
    /\ \A i \in 1..Len(reqs) : ~Failed(reqs[i])

\* C3: the state turns Valid only in the step that ends a
\* download_configurations call which requested every outdated configuration
\* and had every request answered 200; a call that returns False never
\* leaves the state Valid.
C3_ValidOnlyAfterFullSync ==
    /\ [][(state' = "Valid" /\ state # "Valid") => SyncSucceeded']_vars
    /\ []((InSync /\ ret = "false") => state # "Valid")

\* Valid reached by a call that downloaded two outdated configurations
C3_Witness ==
    /\ state = "Valid"
    /\ SyncSucceeded
    /\ Len(outdated0) >= 2

\* the step in which _remove_old_configurations runs to its end
PruneFinishes == pc = "prune" /\ pc' = "download"

\* C4: when the prune step runs to its end, the regular files left are
\* exactly the files that were there before at a path the snapshot declares,
\* unchanged; a directory is left if and only if some remaining file lies
\* below it (every directory empty after the deletions, at any depth, is
\* gone); and the root directory remains.
C4_PruneCorrect ==
    [][PruneFinishes =>
        LET declared == ValidPaths(Get(metadata))
        IN  /\ DOMAIN files' = DOMAIN files \cap declared
            /\ \A p \in DOMAIN files' : files'[p] = files[p]
            /\ dirs' \subseteq dirs
            /\ \A d \in dirs \ {Root} :
                   d \in dirs' <=> \E f \in DOMAIN files' : IsProperPrefix(d, f)
            /\ Root \in dirs']_vars

\* the prune step has just ended: it deleted a file inside a directory,
\* removed a directory nested in another one, and kept a declared file
C4_Witness ==
    /\ InSync
    /\ pc = "download"
    /\ Len(todo) = Cardinality(Get(metadata).configurations_metadata)
    /\ {"subfile", "subdir"} \subseteq deleted
    /\ DOMAIN files # {}
    /\ dirs = {Root}

\* the prune step of the running call has run to its end, and the call has
\* not ended in an exception
PruneDone ==
    \/ pc = "download"
    \/ pc = "idle" /\ ret \in {"true", "false"} /\ metadata # None

\* C5: in download_configurations no download request is sent before the
\* prune step has ended, and from the end of the prune step until the call
\* returns True or False every regular file under the root is at a path the
\* snapshot declares.
C5_PruneBeforeDownload ==
    InSync =>
        /\ (pc = "prune" => ConfigRequests = <<>>)
        /\ (PruneDone => DOMAIN files \subseteq ValidPaths(Get(metadata)))

\* a call that pruned a file inside a directory, downloaded one configuration
\* and failed on the next has returned False
C5_Witness ==
    /\ InSync
    /\ pc = "idle"
    /\ ret = "false"
    /\ metadata # None
    /\ "subfile" \in deleted
    /\ Len(ConfigRequests) = 2
    /\ DOMAIN files # {}

\* no download request, and True with state Valid once returned
QuietSuccess ==
    /\ ConfigRequests = <<>>
    /\ ret \in {"running", "true"}
    /\ (pc = "idle" => ret = "true" /\ state = "Valid")

\* C6 as stated: a download_configurations call that begins right after one
\* that returned True, snapshot and directory unchanged in between, sends no
\* download request, returns True and leaves the state Valid.
C6_Original ==
    (InSync /\ prior \in {"matched", "unmatched"}) => QuietSuccess

\* C6 amended: the same, provided every content the first call downloaded
\* had the digest recorded for its configuration.
C6_Idempotent ==
    (InSync /\ prior = "matched") => QuietSuccess

\* the second of two calls in a row has returned, over a snapshot of two or
\* more configurations
C6_Witness ==
    /\ InSync
    /\ prior = "matched"
    /\ pc = "idle"
    /\ ret = "true"
    /\ Cardinality(Get(metadata).configurations_metadata) >= 2

\* C7: when download_configurations returns True and every content it
\* downloaded has the digest recorded for its configuration, the regular
\* files under the root are exactly at the paths the snapshot declares and
\* is_outdated() is false.
C7_Converged ==
    (InSync /\ pc = "idle" /\ ret = "true" /\ AllMatched) =>
        /\ DOMAIN files = ValidPaths(Get(metadata))
        /\ ~is_outdated(Get(metadata), files, noaccess)

\* such a call that pruned something and downloaded two configurations
C7_Witness ==
    /\ InSync
    /\ pc = "idle"
    /\ ret = "true"
    /\ AllMatched
    /\ deleted # {}
    /\ Len(ConfigRequests) >= 2

\* the configurations of the snapshot whose file is missing or unreadable
Unreadable ==
    {c \in Get(metadata).configurations_metadata :
        c.path \notin DOMAIN files \/ c.path \in noaccess}

\* C8: every configuration of the snapshot whose file is missing or cannot
\* be read is among outdated_configurations(), whatever digest is recorded
\* for it: the digest file_md5 gives for such a file equals no recorded digest.
C8_MissingIsOutdated ==
    metadata # None =>
        \A c \in Unreadable :
            /\ file_md5(files, noaccess, c.path) # c.md5
            /\ c \in SeqToSet(outdated_configurations(Get(metadata), files, noaccess))

\* a snapshot with a missing file whose recorded digest is that of the empty
\* content, and a file that exists but cannot be read
C8_Witness ==
    /\ metadata # None
    /\ \E c \in Unreadable : c.path \notin DOMAIN files /\ c.md5 = Md5(0)
    /\ \E c \in Unreadable : c.path \in noaccess

\* a document that is no complete snapshot of the expected schema version
Defective(doc) ==
    \/ doc.kind # "json"
    \/ doc.version # CONFIG_FILE_VERSION
    \/ ~(DocKeys \subseteq doc.keys)

\* C9: constructing the client over a defective configurations.json (missing,
\* no JSON, another schema version, schema version or any required field
\* missing) raises nothing and leaves no snapshot in memory.
C9_LoadFailsSoft ==
    (op = "__init__" /\ Defective(metaFile)) => (ret = "ok" /\ metadata = None)

\* C10 as stated: __init__ leaves state Outdated and no snapshot when no
\* usable cache exists, and state MetadataDownloaded when it loaded a snapshot.
C10_Original ==
    (op = "__init__" /\ ret = "ok") =>
        IF metadata = None THEN state = "Outdated" ELSE state = "MetadataDownloaded"

\* C10 amended: __init__ leaves the state Outdated in both cases, with the
\* snapshot of the cached document in memory exactly when that document is
\* a complete one of the expected schema version; the state turns
\* MetadataDownloaded only in a step whose metadata request is answered 200.
C10_InitLeavesOutdated ==
    /\ []((op = "__init__" /\ ret = "ok") =>
            /\ state = "Outdated"
            /\ (metadata # None <=> ~Defective(metaFile))
            /\ (metadata # None => metadata = Some(DeviceGroupMetadata_from_dict(metaFile))))
    /\ [][(state' = "MetadataDownloaded" /\ state # "MetadataDownloaded") =>
            /\ reqs'[1].url = "v1/current_configurations"
            /\ ~Failed(reqs'[1])]_vars

\* a client constructed over a usable cache
C10_Witness ==
    /\ op = "__init__"
    /\ ret = "ok"
    /\ metadata # None
    /\ state = "Outdated"

FailureStates == {"Invalid_FailedToLoadMetadata", "Invalid_FailedToDownload"}

\* a step in which a metadata request is answered 200: check_latest, called
\* directly or by download_configurations, returns True
FetchSucceeds ==
    /\ op' \in {"check_latest", "download_configurations"}
    /\ reqs' # <<>>
    /\ reqs'[1].url = "v1/current_configurations"
    /\ ~Failed(reqs'[1])
    /\ Len(reqs') = 1
    /\ state' = "MetadataDownloaded"
    /\ (op' = "check_latest" => ret' = "true")

\* a step in which download_configurations returns True
SyncReturnsTrue ==
    /\ pc = "download"
    /\ pc' = "idle"
    /\ op' = "download_configurations"
    /\ ret' = "true"
    /\ state' = "Valid"

\* C11: a client whose state is Invalid_FailedToLoadMetadata or
\* Invalid_FailedToDownload leaves these two states only in a step in which
\* check_latest (called directly or inside download_configurations) or
\* download_configurations returns True; is_outdated and update_state never
\* change the state, and after a check_latest or download_configurations
\* call that returned False the state is one of the two failure states.
\* (Constructing a new client makes a new object, whose state is Outdated.)
C11_FailureSticky ==
    /\ [][(state \in FailureStates /\ state' \notin FailureStates) =>
            (op' = "__init__" \/ FetchSucceeds \/ SyncReturnsTrue)]_vars
    /\ [][op' \in {"is_outdated", "update_state"} => state' = state]_vars
    /\ []((op \in {"check_latest", "download_configurations"} /\ pc = "idle"
           /\ ret = "false") => state \in FailureStates)

\* a report answered 200 on a client whose last download failed: the state
\* is still Invalid_FailedToDownload
C11_Witness ==
    /\ op = "update_state"
    /\ ret = "true"
    /\ state = "Invalid_FailedToDownload"
    /\ metadata # None

\* C12: in a step in which the metadata request of check_latest is answered
\* 200 with a document of the server, whatever the state and the snapshot
\* before, the snapshot in memory becomes the one of that document (its
\* group id, its group version and its set of configurations, last_checked
\* the time read in that step), configurations.json holds the document of
\* that same snapshot, the state is MetadataDownloaded, and check_latest
\* (when called directly) has returned True.
C12_RefreshReplaces ==
    [][(now' # now /\ ~Failed(reqs'[1])) =>
        LET data == reqs'[1].data
            snapshot == [device_group_id |-> data.device_group_id,
                         device_group_version |-> data.device_group_version,
                         configurations_metadata |-> data.configurations,
                         last_checked |-> now']
        IN  /\ reqs'[1].url = "v1/current_configurations"
            /\ metadata' = Some(snapshot)
            /\ metaFile' = DeviceGroupMetadata_to_dict(snapshot)
            /\ LoadRaises(metaFile') = ""
            /\ LoadResult(metaFile') = Some(snapshot)
            /\ state' = "MetadataDownloaded"
            /\ (op' = "check_latest" => pc' = "idle" /\ ret' = "true")]_vars

\* check_latest has returned True a second time, on a client that was Valid
\* with another snapshot, and the new snapshot declares two configurations
C12_Witness ==
    /\ op = "check_latest"
    /\ ret = "true"
    /\ prior = "matched"
    /\ now = 2
    /\ Cardinality(Get(metadata).configurations_metadata) = 2
    /\ state = "MetadataDownloaded"

\* C13: update_state called with no snapshot in memory returns False and
\* sends no request, whatever the event; called with a snapshot it sends
\* one request, carrying the snapshot's group id and group version and the
\* event, and returns True exactly when the response status is 200; in both
\* cases it changes neither the state, nor the snapshot, nor anything on disk.
C13_ReportPrecondition ==
    [][op' = "update_state" =>
        /\ UNCHANGED <<state, metadata, metaFile, files, dirs>>
        /\ exc' = ""
        /\ IF metadata = None
           THEN reqs' = <<>> /\ ret' = "false"
           ELSE /\ Len(reqs') = 1
                /\ reqs'[1].url = "v1/update_state"
                /\ \E e \in DeviceState :
                      reqs'[1].body = Some(<<Get(metadata).device_group_id,
                                             Get(metadata).device_group_version, e>>)
                /\ ret' = IF Failed(reqs'[1]) THEN "false" ELSE "true"]_vars

\* update_state has returned False without a request on a client whose
\* check_latest had failed
C13_Witness ==
    /\ op = "update_state"
    /\ metadata = None
    /\ ret = "false"
    /\ reqs = <<>>
    /\ state = "Invalid_FailedToLoadMetadata"

\* the loop of download_configurations is at a configuration whose file is
\* outdated and does not deny access
AtOutdated ==
    /\ pc = "download"
    /\ todo # <<>>
    /\ Head(todo).md5 # file_md5(files, noaccess, Head(todo).path)
    /\ Head(todo).path \notin noaccess

\* C14: when download_configurations comes to an outdated configuration,
\* whatever directories of its path are missing and however deep the path,
\* every directory on the path exists afterwards, the download request is
\* sent, and once it is answered 200 the file is at that path with the
\* content received.
C14_ParentsCreated ==
    [][AtOutdated =>
        LET path == Head(todo).path
        IN  /\ \A d \in AllPaths : IsProperPrefix(d, path) => d \in dirs'
            /\ Len(reqs') = Len(reqs) + 1
            /\ Get(reqs'[Len(reqs')].config) = Head(todo)
            /\ (~Failed(reqs'[Len(reqs')]) =>
                    /\ path \in DOMAIN files'
                    /\ files'[path] = reqs'[Len(reqs')].data)]_vars

\* a document holding a whole snapshot
Complete(doc) == ~Defective(doc)

\* C15: whenever configurations.json changes, also when the process is
\* killed while check_latest saves the snapshot, the file afterwards holds a
\* complete document: a restarted client never finds a truncated one.
C15_AtomicSave ==
    [][metaFile' # metaFile => Complete(metaFile')]_vars

\* the orders a list can be written in
Orders(list) ==
    {o \in [1..Len(list) -> SeqToSet(list)] : SeqToSet(o) = SeqToSet(list)}

\* the document _save_metadata_file writes for the snapshot in memory
Saved == save_metadata_file(metadata, AbsentFile)

\* C16: for every snapshot the client holds, loading the document that
\* _save_metadata_file writes for it raises nothing and gives an equal
\* snapshot (group id, group version, last_checked, and the same set of
\* configurations, aliases and absent aliases included), also with the
\* configurations list of the document in any other order; and a client
\* constructed anew beside a running client that holds a snapshot loads a
\* snapshot equal to that one.
C16_RoundTrip ==
    /\ [](metadata # None =>
            /\ LoadRaises(Saved) = ""
            /\ \A o \in Orders(Saved.body.configurations_metadata) :
                   LoadResult([Saved EXCEPT !.body.configurations_metadata = o])
                       = metadata)
    /\ [][(pc = "idle" /\ metadata # None /\ op' = "__init__") =>
            (ret' = "ok" /\ metadata' = metadata)]_vars

\* a client constructed over the document an earlier check_latest saved has
\* loaded its snapshot: two configurations, one with an alias, one without
C16_Witness ==
    /\ op = "__init__"
    /\ ret = "ok"
    /\ metadata # None
    /\ Get(metadata).last_checked >= 1
    /\ {c.alias : c \in Get(metadata).configurations_metadata} = {"abc", NoAlias}

\* some configuration of the snapshot has a file whose digest is not the
\* recorded one (the file missing or unreadable included)
Stale ==
    \E c \in Get(metadata).configurations_metadata :
        file_md5(files, noaccess, c.path) # c.md5

\* C17: get() ends in a precondition error whenever no snapshot is in memory
\* or some configuration's file does not have its recorded digest, whatever
\* the key; it returns bytes only with a snapshot in memory every
\* configuration of which has a file with the recorded digest.
C17_NeverServesStale ==
    op = "get" =>
        /\ (metadata = None \/ Stale) => (ret = "raised" /\ exc = "PreconditionError")
        /\ ret = "bytes" => (metadata # None /\ ~Stale)
        /\ ret \in {"raised", "bytes"}

\* get() refused on a client whose state is Valid: the last download was
\* answered 200 with a content that does not have the recorded digest
C17_Witness ==
    /\ op = "get"
    /\ ret = "raised"
    /\ exc = "PreconditionError"
    /\ metadata # None
    /\ state = "Valid"

\* C18: the prune step of download_configurations always runs to its end,
\* whatever files it fails to delete: every file it can delete at a path the
\* snapshot does not declare is gone, a file it cannot delete is left, no
\* exception ends the call, and the download step follows.
C18_DeleteErrorsSkipped ==
    [][(pc = "prune" /\ metadata # None) =>
        /\ pc' = "download"
        /\ ret' = "running"
        /\ exc' = ""
        /\ DOMAIN files' =
               DOMAIN files \ (PruneVictims(Get(metadata), files) \ noaccess)]_vars

\* C19: in the download loop of download_configurations the files change
\* only in a step whose download request is answered 200, and then only the
\* file of the configuration requested: a request answered otherwise leaves
\* that file as it was, with the same content or still missing, and the
\* files of the configurations not yet reached are never touched.
C19_WriteOnlyOnSuccess ==
    [][(pc = "download" /\ files' # files) =>
        /\ Len(reqs') = Len(reqs) + 1
        /\ ~Failed(reqs'[Len(reqs')])
        /\ LET path == Get(reqs'[Len(reqs')].config).path
           IN  /\ DOMAIN files' = DOMAIN files \cup {path}
               /\ \A p \in DOMAIN files \ {path} : files'[p] = files[p]]_vars

\* the step in which a download_configurations call begins
SyncBegins == pc = "idle" /\ op' = "download_configurations"

IsFetch(r) == r.url = "v1/current_configurations"

\* C20: download_configurations sends the metadata request exactly when no
\* snapshot is in memory as it is called, as its first request and only
\* once; with a snapshot it begins without a request, on that snapshot. When
\* the request is answered with a status other than 200 the call returns
\* False at once, in state Invalid_FailedToLoadMetadata: nothing is pruned,
\* no download is requested, and files and directories are as they were.
C20_FetchIffNoSnapshot ==
    /\ [][SyncBegins =>
            /\ IF metadata = None
               THEN Len(reqs') = 1 /\ IsFetch(reqs'[1])
               ELSE reqs' = <<>> /\ metadata' = metadata /\ pc' = "prune"
            /\ (metadata = None /\ Failed(reqs'[1])) =>
                  /\ pc' = "idle"
                  /\ ret' = "false"
                  /\ state' = "Invalid_FailedToLoadMetadata"
                  /\ deleted' = {}
                  /\ UNCHANGED <<files, dirs>>]_vars
    /\ [](InSync => \A i \in 1..Len(reqs) : IsFetch(reqs[i]) => i = 1)
    /\ [][(InSync /\ pc # "idle" /\ reqs' # reqs) =>
            (Len(reqs') = Len(reqs) + 1 /\ ~IsFetch(reqs'[Len(reqs')]))]_vars

\* download_configurations, called beside a cached document but with no
\* snapshot in memory, has returned False on a failed metadata request; the
\* files and directories found are still there
C20_Witness ==
    /\ InSync
    /\ pc = "idle"
    /\ ret = "false"
    /\ state = "Invalid_FailedToLoadMetadata"
    /\ metaFile.kind = "json"
    /\ files # <<>>
    /\ dirs # {Root}

\* the configurations a download_configurations call that has returned False
\* did not download: the one whose request failed and the outdated ones
\* after it, in path order
Leftover == SubSeq(outdated0, Len(ConfigRequests), Len(outdated0))

\* C21: when a download_configurations call begins right after one that
\* returned False on a failed download, on the same snapshot, the
\* configurations outdated as it begins (the ones it requests, in path
\* order) are exactly those the first call did not download: the one whose
\* request failed and the outdated ones after it, and none it had written.
\* Stated for first calls whose downloaded contents all have their recorded
\* digest.
C21_Resumption ==
    [][(SyncBegins /\ InSync /\ ret = "false" /\ metadata # None
        /\ ConfigRequests # <<>> /\ AllMatched) =>
            /\ metadata' = metadata
            /\ outdated_configurations(Get(metadata), files, noaccess) = Leftover]_vars

\* C22: at every moment, inside download_configurations included, a client
\* in state Invalid_FailedToLoadMetadata has no snapshot in memory, and a
\* client in state MetadataDownloaded, Valid or Invalid_FailedToDownload has
\* one.
C22_StateSnapshot ==
    /\ state = "Invalid_FailedToLoadMetadata" => metadata = None
    /\ state \in {"MetadataDownloaded", "Valid", "Invalid_FailedToDownload"} =>
           metadata # None

\* is_outdated has raised on a client whose check_latest failed: no snapshot
\* in memory, though a saved document is on disk
C22_Witness ==
    /\ state = "Invalid_FailedToLoadMetadata"
    /\ metadata = None
    /\ op = "is_outdated"
    /\ ret = "raised"
    /\ metaFile.kind = "json"

\* what a client constructed now would load from configurations.json
OnDisk == IF LoadRaises(metaFile) = "" THEN LoadResult(metaFile) ELSE None

\* C23: whenever a snapshot is in memory it equals the snapshot
\* configurations.json holds; a check_latest whose request is answered with
\* a status other than 200 leaves configurations.json as it was, still
\* holding the snapshot that was in memory, and clears the snapshot in
\* memory only; and a client constructed after that loads the snapshot the
\* file holds.
C23_CacheConsistent ==
    /\ [](metadata # None => OnDisk = metadata)
    /\ [][(now' # now /\ Failed(reqs'[1])) =>
            /\ metaFile' = metaFile
            /\ metadata' = None
            /\ (metadata # None => OnDisk' = metadata)]_vars
    /\ [][(pc = "idle" /\ state = "Invalid_FailedToLoadMetadata" /\ op' = "__init__"
           /\ OnDisk # None) =>
            (ret' = "ok" /\ metadata' = OnDisk /\ metaFile' = metaFile)]_vars

\* check_latest has failed on a client that had saved a snapshot earlier in
\* the run: none is in memory, the saved one is still in the file
C23_Witness ==
    /\ op = "check_latest"
    /\ ret = "false"
    /\ metadata = None
    /\ OnDisk # None
    /\ Get(OnDisk).last_checked >= 1
    /\ Get(OnDisk).configurations_metadata # {}

====
